---- MODULE Spec2Model ----
(***************************************************************************)
(* A model of experimental/ecma402_traits/src/lib.rs: the example          *)
(* implementations BorrowedId and OwnedId of the traits LanguageIdentifier *)
(* and weird::Variants, and the example implementation IntlImpl of the     *)
(* trait Intl (get_canonical_locales).                                     *)
(*                                                                         *)
(* Text is modelled as the sequence of its bytes where the code handles    *)
(* bytes (get_canonical_locales takes AsRef<[u8]>), and as a TLA+ string   *)
(* where the code handles &str / String values.                            *)
(***************************************************************************)
EXTENDS Integers, Sequences, FiniteSets

VARIABLES
    \* ---- one call of IntlImpl::get_canonical_locales (the call frame) ----
    pc,          \* "idle" | "next" | "filter" | "format" | "done"
    locales,     \* the batch the caller passed (&Vec<impl AsRef<[u8]>>)
    idx,         \* how many entries locales.iter() has handed out
    cur,         \* the &str the pipeline is carrying (decoded entry idx)
    out,         \* the Vec<String> that collect() is building
    result,      \* what the caller has got from the last call
    filterSeen,  \* the indices on which the filter closure has been evaluated
    canonSeen,   \* the indices on which the format! closure has been evaluated
    prev,        \* an earlier call the caller remembers: its batch and outcome
    gapFail,     \* a call has panicked since prev was remembered
    \* ---- identifiers and their variant iterators ----
    given,       \* the subtags supplied at construction
    ids,         \* the BorrowedId and the OwnedId constructed from them
    iters,       \* the slice iterators the caller holds, by name
    yielded,     \* the items each iterator has yielded, in order
    ret          \* the value the last trait-method call returned

intlVars == <<pc, locales, idx, cur, out, result, filterSeen, canonSeen, prev, gapFail>>
idVars == <<given, ids, iters, yielded, ret>>
vars == <<pc, locales, idx, cur, out, result, filterSeen, canonSeen, prev, gapFail,
          given, ids, iters, yielded, ret>>

\* Option<T>
None == [some |-> FALSE]
Some(x) == [some |-> TRUE, val |-> x]

----------------------------------------------------------------------------
(* Bounds *)

\* The longest batch passed to get_canonical_locales.
MaxBatch == 3
\* The longest variant list of an identifier.
MaxVars == 2

----------------------------------------------------------------------------
(* IntlImpl::get_canonical_locales: the byte-level helpers *)

\* The bytes of the literal "skip" the filter closure compares with.
SkipLiteral == <<115, 107, 105, 112>>
\* The bytes of "canonicalized(" and of ")" in the format string.
CanonPrefix == <<99, 97, 110, 111, 110, 105, 99, 97, 108, 105, 122, 101, 100, 40>>
CanonSuffix == <<41>>

\* The entries a caller puts in a batch: "skip", "en", "fr", "ski" (a proper
\* prefix of the literal), the two-byte character U+00E9, the empty text, and
\* two byte strings that are not UTF-8: a lone 0xFF, and "e" followed by a
\* lead byte 0xC3 whose continuation byte is missing.
Entries ==
    { SkipLiteral, <<101, 110>>, <<102, 114>>, <<115, 107, 105>>,
      <<195, 169>>, <<>>, <<255>>, <<101, 195>> }

\* The entries of the calls whose outcomes are compared across calls:
\* a surviving entry, a filtered one and an undecodable one.
PureEntries == { SkipLiteral, <<101, 110>>, <<255>> }

SeqsUpTo(S, n) == UNION { [1..k -> S] : k \in 0..n }
Batches == SeqsUpTo(Entries, MaxBatch)
PureBatches == SeqsUpTo(PureEntries, MaxBatch)

\* The width of the UTF-8 sequence a lead byte starts, 0 for a byte that
\* starts none (core::str::from_utf8's utf8_char_width).
Utf8CharWidth(b) ==
    IF b < 128 THEN 1
    ELSE IF b >= 194 /\ b <= 223 THEN 2
    ELSE IF b >= 224 /\ b <= 239 THEN 3
    ELSE IF b >= 240 /\ b <= 244 THEN 4
    ELSE 0

\* The range the byte after lead byte b must lie in.
SecondByteOk(b, c) ==
    IF b = 224 THEN c >= 160 /\ c <= 191
    ELSE IF b = 237 THEN c >= 128 /\ c <= 159
    ELSE IF b = 240 THEN c >= 144 /\ c <= 191
    ELSE IF b = 244 THEN c >= 128 /\ c <= 143
    ELSE c >= 128 /\ c <= 191

RECURSIVE ValidUtf8(_)
ValidUtf8(s) ==
    IF s = <<>> THEN TRUE
    ELSE LET w == Utf8CharWidth(s[1]) IN
         /\ w > 0
         /\ Len(s) >= w
         /\ w >= 2 => SecondByteOk(s[1], s[2])
         /\ \A k \in 3..w : s[k] >= 128 /\ s[k] <= 191
         /\ ValidUtf8(SubSeq(s, w + 1, Len(s)))

\* std::str::from_utf8(l.as_ref()): Ok(the same bytes, as &str) or Err.
FromUtf8(l) ==
    IF ValidUtf8(l) THEN [ok |-> TRUE, str |-> l] ELSE [ok |-> FALSE]

\* The filter closure |l| *l != "skip".
KeepLocale(l) == l # SkipLiteral

\* The closure |l| format!("canonicalized({})", l).
Canonicalize(l) == CanonPrefix \o l \o CanonSuffix

\* A Vec kept from the call before instead of a new one.
StaleVec == [live |-> TRUE, buf |-> IF result.kind = "Ok" THEN result.val ELSE <<>>]

\* The Vec<String> collect() starts from.
FreshVec == [live |-> TRUE, buf |-> <<>>]
\* A Vec that has been moved out of, or dropped while unwinding.
GoneVec == [live |-> FALSE, buf |-> <<>>]

Pending == [kind |-> "Pending"]
Ok(v) == [kind |-> "Ok", val |-> v]
Panicked == [kind |-> "Panic", msg |-> "can not be converted to utf8"]
NoPrev == [set |-> FALSE]
----------------------------------------------------------------------------
(* IntlImpl::get_canonical_locales, one step of the iterator chain at a time. *)
(* The chain locales.iter().map(decode).filter(keep).map(format).collect()    *)
(* is lazy: collect() pulls one entry at a time through decode, filter and    *)
(* format, and pushes it before it pulls the next one.                        *)

\* Vec::push with a membership test in front of it.
PushDedup(v, s) ==
    IF \E k \in DOMAIN v.buf : v.buf[k] = s THEN v ELSE [v EXCEPT !.buf = Append(@, s)]

\* Vec::push, as collect() does for every item the chain yields.
Push(v, s) == [v EXCEPT !.buf = Append(@, s)]

\* The caller passes a batch: the chain is built, nothing is pulled yet.
Call(b) ==
    /\ pc = "idle"
    /\ pc' = "next"
    /\ locales' = b
    /\ idx' = 0
    /\ cur' = <<>>
    /\ out' = FreshVec
    /\ result' = Pending
    /\ filterSeen' = {}
    /\ canonSeen' = {}
    /\ UNCHANGED <<prev, gapFail>>

\* An entry that is not UTF-8 is passed over instead of panicking.
NextEntry_Lenient ==
    /\ pc = "next"
    /\ idx < Len(locales)
    /\ LET r == FromUtf8(locales[idx + 1]) IN
       /\ idx' = idx + 1
       /\ pc' = IF r.ok THEN "filter" ELSE "next"
       /\ cur' = IF r.ok THEN r.str ELSE <<>>
       /\ UNCHANGED <<out, result>>
    /\ UNCHANGED <<locales, filterSeen, canonSeen, prev, gapFail>>

\* locales.iter() hands out the next entry and the first map decodes it:
\* from_utf8(..).expect(..) panics on Err, the stack unwinds, the Vec under
\* construction is dropped and the caller gets no value.
NextEntry ==
    /\ pc = "next"
    /\ idx < Len(locales)
    /\ LET r == FromUtf8(locales[idx + 1]) IN
       /\ idx' = idx + 1
       /\ IF r.ok
          THEN /\ pc' = "filter"
               /\ cur' = r.str
               /\ UNCHANGED <<out, result>>
          ELSE /\ pc' = "done"
               /\ cur' = <<>>
               /\ out' = GoneVec
               /\ result' = Panicked
    /\ UNCHANGED <<locales, filterSeen, canonSeen, prev, gapFail>>

\* The filter closure is not evaluated here: every entry goes on to format.
FilterStep_Late ==
    /\ pc = "filter"
    /\ pc' = "format"
    /\ UNCHANGED <<locales, idx, cur, out, result, filterSeen, canonSeen, prev, gapFail>>

\* The filter closure is evaluated on the decoded entry: an entry equal to
\* "skip" is dropped and the chain pulls the next one.
FilterStep ==
    /\ pc = "filter"
    /\ filterSeen' = filterSeen \cup {idx}
    /\ pc' = IF KeepLocale(cur) THEN "format" ELSE "next"
    /\ UNCHANGED <<locales, idx, cur, out, result, canonSeen, prev, gapFail>>

\* The second map formats the surviving entry and collect() pushes it.
FormatStep ==
    /\ pc = "format"
    /\ canonSeen' = canonSeen \cup {idx}
    /\ out' = Push(out, Canonicalize(cur))
    /\ pc' = "next"
    /\ UNCHANGED <<locales, idx, cur, result, filterSeen, prev, gapFail>>

\* An empty result is taken for a failure.
CollectDone_NonEmpty ==
    /\ pc = "next"
    /\ idx = Len(locales)
    /\ pc' = "done"
    /\ result' = IF out.buf = <<>> THEN Panicked ELSE Ok(out.buf)
    /\ out' = GoneVec
    /\ UNCHANGED <<locales, idx, cur, filterSeen, canonSeen, prev, gapFail>>

\* locales.iter() is exhausted: collect() returns the Vec, which is moved to
\* the caller.
CollectDone ==
    /\ pc = "next"
    /\ idx = Len(locales)
    /\ pc' = "done"
    /\ result' = Ok(out.buf)
    /\ out' = GoneVec
    /\ UNCHANGED <<locales, idx, cur, filterSeen, canonSeen, prev, gapFail>>

\* The call is over (returned, or unwound).  The caller keeps the outcome,
\* and may remember the batch together with it to compare a later call with.
Return(remember) ==
    /\ pc = "done"
    /\ pc' = "idle"
    /\ locales' = <<>>
    /\ idx' = 0
    /\ IF remember
       THEN /\ prev' = [set |-> TRUE, batch |-> locales, outcome |-> result]
            /\ gapFail' = FALSE
       ELSE /\ prev' = prev
            /\ gapFail' = (gapFail \/ (prev.set /\ result.kind = "Panic"))
    /\ filterSeen' = {}
    /\ canonSeen' = {}
    /\ UNCHANGED <<cur, out, result>>

\* The identifier of borrowed_tests and owned_tests; no iterator is held.
TestGiven ==
    [lang |-> "en", reg |-> Some("US"), scr |-> None,
     var |-> <<"east_coast", "west_coast">>]

----------------------------------------------------------------------------
(* BorrowedId and OwnedId *)

\* A &'static str, a String, and the &str an accessor returns.
StaticStr(t) == [ty |-> "&str", text |-> t]
OwnedString(t) == [ty |-> "String", text |-> t]
\* Deref coercion &String -> &str.
AsStr(s) == [ty |-> "&str", text |-> s.text]

\* The subtags an identifier is constructed from.  The empty text is a
\* subtag like any other to the struct literals: nothing validates them.
Langs == {"", "en"}
Regions == {None, Some(""), Some("US")}
Scripts == {None, Some("Latn")}
VariantTexts == {"east_coast", "west_coast"}
Givens ==
    [lang : Langs, reg : Regions, scr : Scripts, var : SeqsUpTo(VariantTexts, MaxVars)]

\* The names of the iterators a caller holds at the same time.
Slots == {"first", "second"}
Owners == {"borrowed", "owned"}

\* Some("..") / None, and Some("..".to_string()) / None.
OptStatic(o) == IF o.some THEN Some(StaticStr(o.val)) ELSE None
OptOwned(o) == IF o.some THEN Some(OwnedString(o.val)) ELSE None

\* The struct literal BorrowedId { lang: "..", reg: .., scr: .., var: vec![..] }.
MkBorrowedId(g) ==
    [lang |-> StaticStr(g.lang),
     reg |-> OptStatic(g.reg),
     scr |-> OptStatic(g.scr),
     var |-> [k \in DOMAIN g.var |-> StaticStr(g.var[k])]]

\* The struct literal OwnedId { lang: "..".to_string(), .. }.
MkOwnedId(g) ==
    [lang |-> OwnedString(g.lang),
     reg |-> OptOwned(g.reg),
     scr |-> OptOwned(g.scr),
     var |-> [k \in DOMAIN g.var |-> OwnedString(g.var[k])]]

MkIds(g) == [borrowed |-> MkBorrowedId(g), owned |-> MkOwnedId(g)]

\* Option::as_deref with the absent case turned into the empty text.
AsDeref_OrEmpty(o) == IF o.some THEN Some(AsStr(o.val)) ELSE Some(AsStr(OwnedString("")))

\* Option<String>::as_deref: Option<&str>.
AsDeref(o) == IF o.some THEN Some(AsStr(o.val)) ELSE None

BorrowedId_language(self) == self.lang
BorrowedId_region(self) == self.reg
BorrowedId_script(self) == self.scr
OwnedId_language(self) == AsStr(self.lang)
OwnedId_region(self) == AsDeref(self.reg)
OwnedId_script(self) == AsDeref(self.scr)

\* Dynamic dispatch on the implementing type.
language(w) ==
    IF w = "borrowed" THEN BorrowedId_language(ids[w]) ELSE OwnedId_language(ids[w])
region(w) ==
    IF w = "borrowed" THEN BorrowedId_region(ids[w]) ELSE OwnedId_region(ids[w])
script(w) ==
    IF w = "borrowed" THEN BorrowedId_script(ids[w]) ELSE OwnedId_script(ids[w])

----------------------------------------------------------------------------
(* weird::Variants: Iter = std::slice::Iter over the identifier's var *)

NoIter == [live |-> FALSE]
Max(S) == CHOOSE x \in S : \A y \in S : y <= x

\* An iterator that starts where the furthest live iterator over the same
\* identifier stands: a cursor shared through the identifier.
VecIter_Shared(w, v) ==
    [live |-> TRUE, of |-> w,
     ptr |-> Max({0} \cup {iters[s].ptr : s \in {t \in Slots : iters[t].live /\ iters[t].of = w}}),
     end |-> Len(v)]

\* Vec::iter(): a slice iterator over all of v, at its first element.
VecIter(w, v) == [live |-> TRUE, of |-> w, ptr |-> 0, end |-> Len(v)]

\* Iteration over the variants with repeated subtags left out of the count.
OwnedId_variants_Dedup(w) ==
    [VecIter(w, ids[w].var) EXCEPT
        !.end = Cardinality({ids[w].var[k] : k \in DOMAIN ids[w].var})]

BorrowedId_variants(w) == VecIter(w, ids[w].var)
OwnedId_variants(w) == VecIter(w, ids[w].var)

variants(w) == IF w = "borrowed" THEN BorrowedId_variants(w) ELSE OwnedId_variants(w)

\* ExactSizeIterator::len of a slice iterator.
SliceIterLen(it) == it.end - it.ptr

\* The reference to element k of the var of identifier w that next() yields.
ItemRef(w, k) == [of |-> w, at |-> k]

\* next() that goes back to the first element once it has reached the end.
SliceIterNext_Restart(it) ==
    IF it.ptr = it.end
    THEN [item |-> None, it |-> [it EXCEPT !.ptr = 0]]
    ELSE [item |-> Some(ItemRef(it.of, it.ptr + 1)), it |-> [it EXCEPT !.ptr = @ + 1]]

\* Iterator::next of a slice iterator.
SliceIterNext(it) ==
    IF it.ptr = it.end
    THEN [item |-> None, it |-> it]
    ELSE [item |-> Some(ItemRef(it.of, it.ptr + 1)), it |-> [it EXCEPT !.ptr = @ + 1]]

\* What a yielded reference points to.
Deref(item) == ids[item.of].var[item.at]

\* The closures the tests map over the items: v.to_owned().to_owned() on a
\* &&str (a copy of the &str, then a new String with its text), and
\* v.to_owned() on a &String (a clone of the String).
ItemToOwned(item) ==
    IF item.of = "borrowed"
    THEN LET s == Deref(item) IN OwnedString(s.text)
    ELSE LET s == Deref(item) IN [s EXCEPT !.ty = "String"]

NoRet == [op |-> "none"]

CallLanguage(w) ==
    /\ ret' = [op |-> "language", on |-> w, val |-> language(w)]
    /\ UNCHANGED <<given, ids, iters, yielded>>

CallRegion(w) ==
    /\ ret' = [op |-> "region", on |-> w, val |-> region(w)]
    /\ UNCHANGED <<given, ids, iters, yielded>>

CallScript(w) ==
    /\ ret' = [op |-> "script", on |-> w, val |-> script(w)]
    /\ UNCHANGED <<given, ids, iters, yielded>>

\* id.variants(), the iterator bound to the name s.
CallVariants(s, w) ==
    /\ iters' = [iters EXCEPT ![s] = variants(w)]
    /\ yielded' = [yielded EXCEPT ![s] = <<>>]
    /\ ret' = [op |-> "variants", slot |-> s, on |-> w]
    /\ UNCHANGED <<given, ids>>

\* One next() on the iterator named s.
CallNext(s) ==
    /\ iters[s].live
    /\ LET r == SliceIterNext(iters[s]) IN
       /\ iters' = [iters EXCEPT ![s] = r.it]
       /\ yielded' = [yielded EXCEPT ![s] = IF r.item.some THEN Append(@, r.item.val) ELSE @]
       /\ ret' = [op |-> "next", slot |-> s, before |-> SliceIterLen(iters[s]),
                  val |-> r.item]
    /\ UNCHANGED <<given, ids>>

\* len() on the iterator named s.
CallLen(s) ==
    /\ iters[s].live
    /\ ret' = [op |-> "len", slot |-> s, val |-> SliceIterLen(iters[s])]
    /\ UNCHANGED <<given, ids, iters, yielded>>

----------------------------------------------------------------------------
(* Specifications *)

IntlFrameInit ==
    /\ pc = "idle"
    /\ locales = <<>>
    /\ idx = 0
    /\ cur = <<>>
    /\ out = GoneVec
    /\ result = Pending
    /\ filterSeen = {}
    /\ canonSeen = {}
    /\ prev = NoPrev
    /\ gapFail = FALSE

IdInit(G) ==
    /\ given \in G
    /\ ids = MkIds(given)
    /\ iters = [s \in Slots |-> NoIter]
    /\ yielded = [s \in Slots |-> <<>>]
    /\ ret = NoRet

\* get_canonical_locales called again and again on one IntlImpl.
InitIntl == IntlFrameInit /\ IdInit({TestGiven})

NextIntl ==
    \/ \E b \in Batches : Call(b) /\ UNCHANGED idVars
    \/ NextEntry /\ UNCHANGED idVars
    \/ FilterStep /\ UNCHANGED idVars
    \/ FormatStep /\ UNCHANGED idVars
    \/ CollectDone /\ UNCHANGED idVars
    \/ Return(FALSE) /\ UNCHANGED idVars

SpecIntl == InitIntl /\ [][NextIntl]_vars

\* The same, with a caller that compares the outcomes of calls.
NextPure ==
    \/ \E b \in PureBatches : Call(b) /\ UNCHANGED idVars
    \/ NextEntry /\ UNCHANGED idVars
    \/ FilterStep /\ UNCHANGED idVars
    \/ FormatStep /\ UNCHANGED idVars
    \/ CollectDone /\ UNCHANGED idVars
    \/ \E remember \in BOOLEAN : Return(remember) /\ UNCHANGED idVars

SpecPure == InitIntl /\ [][NextPure]_vars

\* A BorrowedId and an OwnedId constructed from the same subtags, and a
\* caller of their trait methods.
InitId == IntlFrameInit /\ IdInit(Givens)

NextId ==
    \/ \E w \in Owners : CallLanguage(w) /\ UNCHANGED intlVars
    \/ \E w \in Owners : CallRegion(w) /\ UNCHANGED intlVars
    \/ \E w \in Owners : CallScript(w) /\ UNCHANGED intlVars
    \/ \E s \in Slots, w \in Owners : CallVariants(s, w) /\ UNCHANGED intlVars
    \/ \E s \in Slots : CallNext(s) /\ UNCHANGED intlVars
    \/ \E s \in Slots : CallLen(s) /\ UNCHANGED intlVars

SpecId == InitId /\ [][NextId]_vars

----------------------------------------------------------------------------
(* Properties of get_canonical_locales *)

IsNotSkip(l) == l # SkipLiteral
Survivors(b) == SelectSeq(b, IsNotSkip)
SkipCount(b) == Cardinality({k \in DOMAIN b : b[k] = SkipLiteral})
AllValid(b) == \A k \in DOMAIN b : ValidUtf8(b[k])
\* What the contract says the output of a batch of valid entries is.
Expected(b) ==
    [k \in 1..Len(Survivors(b)) |-> CanonPrefix \o Survivors(b)[k] \o CanonSuffix]

\* C1: a finished call on a batch of valid UTF-8 entries has returned the
\* batch without its "skip" entries, each remaining entry l replaced by
\* "canonicalized(l)", in input order, duplicates kept: the output is as long
\* as the input less the number of "skip" entries.
C1_CanonicalOutput ==
    (pc = "done" /\ AllValid(locales)) =>
        /\ result = Ok(Expected(locales))
        /\ Len(result.val) = Len(locales) - SkipCount(locales)

\* The call of test_canonical_locales (with shorter tags) has returned.
C1_Witness ==
    /\ pc = "done"
    /\ locales = << <<101, 110>>, SkipLiteral, <<102, 114>> >>
    /\ result.kind = "Ok"
    /\ Len(result.val) = 2

\* C2: a finished call on a batch with an entry that is not UTF-8 has
\* panicked: the caller has no output sequence, and the Vec that was being
\* built is gone, whatever had been pushed to it.
C2_WholeBatchFails ==
    (pc = "done" /\ ~AllValid(locales)) =>
        /\ result = Panicked
        /\ out = GoneVec

\* A call has panicked after it had canonicalized an earlier entry.
C2_Witness ==
    /\ pc = "done"
    /\ result.kind = "Panic"
    /\ canonSeen # {}
    /\ \E k \in DOMAIN locales : k > 1 /\ ~ValidUtf8(locales[k])

\* C6: a finished call on the empty batch has returned the empty sequence.
C6_EmptyBatch ==
    (pc = "done" /\ locales = <<>>) => result = Ok(<<>>)

C6_Witness ==
    pc = "done" /\ locales = <<>> /\ result.kind = "Ok" /\ filterSeen = {}

\* C7: no step of a call changes the batch it was given, and a finished call
\* has the outcome of the remembered earlier call on an equal batch, whatever
\* calls came between the two.
C7_PureFunction ==
    [][ /\ (pc \in {"next", "filter", "format"}) => (locales' = locales)
        /\ (pc = "done" /\ prev.set /\ prev.batch = locales) => (result = prev.outcome)
      ]_vars

\* A call has returned a non-empty output for the batch of a remembered call,
\* with a panicked call between the two.
C7_Witness ==
    /\ pc = "done"
    /\ prev.set
    /\ prev.batch = locales
    /\ gapFail
    /\ result.kind = "Ok"
    /\ result.val # <<>>

\* C9 as claimed: when an entry is about to be canonicalized the filter has
\* been evaluated on every entry of the batch, and no "skip" entry is ever
\* canonicalized.
C9_FilterBeforeAll ==
    /\ pc = "format" => filterSeen = DOMAIN locales
    /\ \A i \in canonSeen : locales[i] # SkipLiteral

\* C9, amended: when an entry is about to be canonicalized the filter has
\* been evaluated on it and on every entry before it; only entries the filter
\* has been evaluated on are canonicalized, and no "skip" entry ever is.
C9_FilterBeforeEach ==
    /\ pc = "format" => (1..idx) \subseteq filterSeen
    /\ canonSeen \subseteq filterSeen
    /\ \A i \in canonSeen : locales[i] # SkipLiteral

\* An entry is about to be canonicalized after a "skip" entry was dropped,
\* with an entry after it that the chain has not pulled yet.
C9_Witness ==
    /\ pc = "format"
    /\ idx < Len(locales)
    /\ \E k \in 1..(idx - 1) : locales[k] = SkipLiteral
    /\ filterSeen # DOMAIN locales

----------------------------------------------------------------------------
(* Properties of the identifiers *)

\* C3 as claimed: language() never returns the empty text, and returns "und"
\* when the language supplied is empty.
C3_LanguageNeverEmpty ==
    ret.op = "language" =>
        /\ ret.val.text # ""
        /\ given.lang = "" => ret.val.text = "und"

\* The items the iterator named s has yielded, mapped to owned text.
Collected(s) == [k \in 1..Len(yielded[s]) |-> ItemToOwned(yielded[s][k])]
\* The variant list as supplied, as owned text.
OwnedVariants == [k \in 1..Len(given.var) |-> OwnedString(given.var[k])]

\* C4: when next() has returned None, the items the iterator has yielded are
\* as many as the variants supplied and, mapped to owned text, are the
\* variants supplied in their order, on the BorrowedId and on the OwnedId
\* alike; for no variants that is the empty sequence.
C4_VariantsRoundTrip ==
    (ret.op = "next" /\ ~ret.val.some) =>
        /\ Len(yielded[ret.slot]) = Len(given.var)
        /\ Collected(ret.slot) = OwnedVariants

\* An iterator over the BorrowedId has just been exhausted, one over the
\* OwnedId has yielded all its items, and the list repeats a variant.
C4_Witness ==
    /\ ret.op = "next"
    /\ ~ret.val.some
    /\ iters[ret.slot].of = "borrowed"
    /\ \E t \in Slots :
         /\ iters[t].live
         /\ iters[t].of = "owned"
         /\ Len(yielded[t]) = Len(given.var)
    /\ Len(given.var) >= 2
    /\ given.var[1] = given.var[2]

\* C5: region() and script() return None exactly when the subtag was not
\* supplied, and a supplied subtag, empty or not, is returned as it is.
C5_OptionalSubtags ==
    (ret.op \in {"region", "script"}) =>
        LET supplied == IF ret.op = "region" THEN given.reg ELSE given.scr IN
        /\ (ret.val = None) <=> (supplied = None)
        /\ supplied.some => (ret.val.some /\ ret.val.val.text = supplied.val)

\* region() of the OwnedId has returned None.
C5_Witness ==
    ret.op = "region" /\ ret.on = "owned" /\ given.reg = None /\ ret.val = None

\* C8: every iterator has yielded the variants from the first one on, in
\* order, whatever the other iterator over the same identifier has done, and
\* the identifiers are as constructed.
C8_IndependentIterators ==
    /\ ids = MkIds(given)
    /\ \A s \in Slots :
         iters[s].live =>
            /\ yielded[s] = [k \in 1..Len(yielded[s]) |-> ItemRef(iters[s].of, k)]
            /\ iters[s].ptr = Len(yielded[s])

\* One iterator has yielded its first item only; another over the same
\* identifier has yielded the full list and was the last to be advanced.
C8_Witness ==
    /\ Len(given.var) >= 2
    /\ iters["first"].live
    /\ iters["second"].live
    /\ iters["first"].of = iters["second"].of
    /\ Len(yielded["first"]) = 1
    /\ Len(yielded["second"]) = Len(given.var)
    /\ ret.op = "next"
    /\ ret.slot = "second"

\* C10: an iterator over n variants that has yielded k items reports the
\* length n - k; it never yields more than n items; next() returns None
\* exactly when the length was 0, and leaves the length at 0.
C10_ExactSize ==
    /\ \A s \in Slots :
         iters[s].live =>
            /\ Len(yielded[s]) <= Len(given.var)
            /\ SliceIterLen(iters[s]) = Len(given.var) - Len(yielded[s])
    /\ ret.op = "len" => ret.val = Len(given.var) - Len(yielded[ret.slot])
    /\ ret.op = "variants" => SliceIterLen(iters[ret.slot]) = Len(given.var)
    /\ ret.op = "next" =>
         /\ (~ret.val.some) <=> (ret.before = 0)
         /\ ret.before = 0 =>
              /\ SliceIterLen(iters[ret.slot]) = 0
              /\ Len(yielded[ret.slot]) = Len(given.var)

\* next() has returned None on an iterator that has yielded all of a
\* non-empty list.
C10_Witness ==
    /\ ret.op = "next"
    /\ ~ret.val.some
    /\ Len(given.var) >= 2
    /\ Len(yielded[ret.slot]) = Len(given.var)

====
